---- MODULE Spec2Model ----
(***************************************************************************)
(* A model of fetch_hubspot_data.py: the time window, the paginated fetch  *)
(* with retry, the classification helpers and the report assembly.         *)
(*                                                                         *)
(* Python values.  A str is a sequence of one-character strings, so that   *)
(* lower(), strip() and the `in` substring test are computed.  An optional *)
(* value (dict.get, a JSON null) is a tuple of length 0 or 1: None is <<>> *)
(* and the value v is <<v>>.  A contact is the record of its "properties". *)
(***************************************************************************)
EXTENDS Integers, Sequences, FiniteSets, TLC

VARIABLES
    \* configuration and time window (lines 11-25)
    cc_team, sales_team, main_lead_source, now, start_timestamp, end_timestamp,
    \* the remote service: the pages it may serve to each call site
    server,
    \* fetch_all_hubspot_contacts: locals of the call in progress (lines 29-66)
    fpc, retries, attempt, after, all_results, response, raised,
    \* what the latest call did: payloads posted, responses received, and
    \* time.sleep arguments (in tenths of a second)
    requests, responses, sleeps,
    \* the script: position and module-level names (lines 83-260)
    pc, leads_allocate, leads_create, lead_source_create,
    lead_source_with_activity, lead_types, lead_sources, lifecycle_stage,
    contact_owners_with_activity, unique_secondary_owners_with_activity,
    todo, sales_id, report, output_sales_direct, output_cc_to,
    grouped_sources, main_idx, sub_sources, sub_lines, main_count,
    output_lead_source, output

confVars == <<cc_team, sales_team, main_lead_source, now, start_timestamp,
              end_timestamp, server>>
fetchVars == <<fpc, retries, attempt, after, all_results, response, raised,
               requests, responses, sleeps>>
scriptVars == <<pc, leads_allocate, leads_create, lead_source_create,
                lead_source_with_activity, lead_types, lead_sources,
                lifecycle_stage, contact_owners_with_activity,
                unique_secondary_owners_with_activity, todo, sales_id, report,
                output_sales_direct, output_cc_to, grouped_sources, main_idx,
                sub_sources, sub_lines, main_count, output_lead_source, output>>
vars == <<confVars, fetchVars, scriptVars>>

----------------------------------------------------------------------------
\* Bounds of the model.

\* largest `retries` argument tried when the function is called on its own
MaxRetries == 3
\* longest chain of pages the service serves to one call
MaxPages == 3
\* last UTC day (counted from the epoch) from which `now` is drawn
MaxDay == 2
\* longest list of configured lead-source names
MaxSources == 2
\* longest list of leads over which the lead-type buckets are examined
MaxLeads == 3

\* Program constants.
DefaultRetries == 3
DefaultLimit == 100
TzOffsetHours == 7

----------------------------------------------------------------------------
\* Python values.

None == <<>>
Some(v) == <<v>>
\* bool(x) of an optional str or list: None and the empty value are falsy
Truthy(x) == x # None /\ x[1] # <<>>
\* x or "" / x or []
OrEmpty(x) == IF Truthy(x) THEN x[1] ELSE <<>>

LowerChar(c) ==
    CASE c = "F" -> "f"
      [] c = "G" -> "g"
      [] c = "O" -> "o"
      [] OTHER -> c
\* str.lower()
Lower(s) == [i \in DOMAIN s |-> LowerChar(s[i])]
IsSpace(c) == c = " "
RECURSIVE LStrip(_)
LStrip(s) == IF s # <<>> /\ IsSpace(Head(s)) THEN LStrip(Tail(s)) ELSE s
RECURSIVE RStrip(_)
RStrip(s) ==
    IF s # <<>> /\ IsSpace(s[Len(s)]) THEN RStrip(SubSeq(s, 1, Len(s) - 1)) ELSE s
\* str.strip()
Strip(s) == RStrip(LStrip(s))
\* k in s, for two str: "" is in every str
In(k, s) ==
    \E i \in 0..(Len(s) - Len(k)) : SubSeq(s, i + 1, i + Len(k)) = k

RECURSIVE Concat(_)
Concat(ss) == IF ss = <<>> THEN <<>> ELSE Head(ss) \o Concat(Tail(ss))
Range(s) == {s[i] : i \in DOMAIN s}
\* the orders in which a set may be listed
Orders(S) ==
    {s \in [1..Cardinality(S) -> S] : \A i, j \in DOMAIN s : i # j => s[i] # s[j]}

----------------------------------------------------------------------------
\* Time window (lines 17-25).  A datetime of tz_gmt7 is the record of its
\* local fields, `day` being the local calendar day counted from 1970-01-01.
\* An instant is [ms, us]: whole milliseconds since the epoch and the
\* microseconds beyond them.  The float arithmetic of timestamp() * 1000 is
\* exact to well under a microsecond at these magnitudes and is modelled
\* as exact.

HourMs == 60 * 60 * 1000
DayMs == 24 * HourMs

\* (the fields of the UTC clock, the offset forgotten)
DatetimeNowUtc(instant, offset) ==
    LET rem == instant.ms % DayMs
    IN  [day |-> instant.ms \div DayMs,
         hour |-> rem \div HourMs,
         minute |-> (rem % HourMs) \div 60000,
         second |-> (rem % 60000) \div 1000,
         microsecond |-> (rem % 1000) * 1000 + instant.us]
\* datetime.datetime.now(tz=timezone(timedelta(hours=offset)))
DatetimeNow(instant, offset) ==
    LET local == instant.ms + offset * HourMs
        rem == local % DayMs
    IN  [day |-> local \div DayMs,
         hour |-> rem \div HourMs,
         minute |-> (rem % HourMs) \div 60000,
         second |-> (rem % 60000) \div 1000,
         microsecond |-> (rem % 1000) * 1000 + instant.us]
\* d - timedelta(days=n)
MinusDays(d, n) == [d EXCEPT !.day = @ - n]
\* d.replace(hour=h, minute=m, second=s, microsecond=us)
Replace(d, h, m, s, us) ==
    [d EXCEPT !.hour = h, !.minute = m, !.second = s, !.microsecond = us]
\* d.timestamp() * 1000, as [ms, us]: floor in ms and the remainder
TimestampTimes1000(d, offset) ==
    [ms |-> (((d.day * 24 + d.hour - offset) * 60 + d.minute) * 60 + d.second) * 1000
              + d.microsecond \div 1000,
     us |-> d.microsecond % 1000]
\* int(x): truncation toward zero
IntTrunc(x) == IF x.ms < 0 /\ x.us > 0 THEN x.ms + 1 ELSE x.ms

yesterday(n) == MinusDays(DatetimeNow(n, TzOffsetHours), 1)
start_time(n) == Replace(yesterday(n), 17, 0, 0, 0)
end_time(n) == Replace(DatetimeNow(n, TzOffsetHours), 16, 59, 59, 999999)
StartTimestamp(n) == IntTrunc(TimestampTimes1000(start_time(n), TzOffsetHours))
EndTimestamp(n) == IntTrunc(TimestampTimes1000(end_time(n), TzOffsetHours))

----------------------------------------------------------------------------
\* Filter helpers (lines 70-79).

between_filter(property_name) ==
    <<[propertyName |-> property_name, operator |-> "BETWEEN",
       value |-> start_timestamp, highValue |-> end_timestamp]>>
eq_filter(property_name, value) ==
    <<[propertyName |-> property_name, operator |-> "EQ", value |-> value]>>

----------------------------------------------------------------------------
\* Classification helpers (lines 101-108).

\* (a filter that only asks for a lead_type to be there)
filter_by_any_type(leads, lead_type) ==
    LET Test(l) == l.lead_type # None IN SelectSeq(leads, Test)
filter_by_type(leads, lead_type) ==
    LET Test(l) == l.lead_type = Some(lead_type) IN SelectSeq(leads, Test)
match_lead_source(leads, keyword) ==
    LET Test(l) == In(Lower(keyword), Lower(OrEmpty(l.lead_source)))
    IN  SelectSeq(leads, Test)
match_blank_lead_source(leads) ==
    LET Test(l) == ~Truthy(l.lead_source) IN SelectSeq(leads, Test)

----------------------------------------------------------------------------
\* The script's module-level state as one record, so that the code between
\* two fetch calls is a function from state to state.

Script ==
    [pc |-> pc, leads_allocate |-> leads_allocate, leads_create |-> leads_create,
     lead_source_create |-> lead_source_create,
     lead_source_with_activity |-> lead_source_with_activity,
     lead_types |-> lead_types, lead_sources |-> lead_sources,
     lifecycle_stage |-> lifecycle_stage,
     contact_owners_with_activity |-> contact_owners_with_activity,
     unique_secondary_owners_with_activity |-> unique_secondary_owners_with_activity,
     todo |-> todo, sales_id |-> sales_id, report |-> report,
     output_sales_direct |-> output_sales_direct, output_cc_to |-> output_cc_to,
     grouped_sources |-> grouped_sources, main_idx |-> main_idx,
     sub_sources |-> sub_sources, sub_lines |-> sub_lines,
     main_count |-> main_count, output_lead_source |-> output_lead_source,
     output |-> output]

\* The keys of two dicts that are not configuration values.
OtherKey == <<"O", "t", "h", "e", "r">>
NoLeadSourceKey == <<"n", "o", "_", "l", "e", "a", "d", "_", "s", "o", "u", "r", "c", "e">>

\* Call sites: the arguments of each fetch_all_hubspot_contacts call.
properties_leads == <<"email", "lead_type", "lead_source">>
properties_owner == <<"secondary_owner", "hubspot_owner_id">>
Call(filters, properties) == [filters |-> filters, properties |-> properties]

lifecycle_keys ==
    <<"contact_count", "take_over_call_count", "take_over_text_count",
      "zoom_book_count", "zoom_attend_count", "deal_negotiation_count">>
\* lines 127-132
lifecycle_call(i) ==
    Call(CASE i = 1 -> between_filter("date_entered__contact__new_lifecycle_stage_pipeline__")
           [] i = 2 -> between_filter("takeover_date_time") \o eq_filter("takeover_type", "TO Call")
           [] i = 3 -> between_filter("takeover_date_time") \o eq_filter("takeover_type", "TO Text")
           [] i = 4 -> between_filter("date_entered__zoom_booked__new_lifecycle_stage_pipeline__")
           [] i = 5 -> between_filter("date_entered__zoom_attended__new_lifecycle_stage_pipeline__")
           [] i = 6 -> between_filter("date_entered__deal_negotiation__new_lifecycle_stage_pipeline__"),
         Some(properties_owner))

\* lines 157-169; the len() of the result is taken when the call returns
get_count_contact_owner(property_name, id) ==
    Call(between_filter(property_name) \o eq_filter("hubspot_owner_id", id), None)
get_count_secondary_owner(property_name, id, takeover_type) ==
    Call(between_filter(property_name) \o eq_filter("secondary_owner", id)
           \o (IF takeover_type # None THEN eq_filter("takeover_type", takeover_type[1])
               ELSE <<>>),
         None)
get_count_lead_source(source) ==
    Call(between_filter("createdate") \o eq_filter("lead_source", source), None)

\* lines 176-180 and 191-197: the metrics of one paragraph, in order
report_sales_direct_labels == <<" Zoom Book", " Attend", " Deal Negotiation">>
report_sales_direct_call(i, id) ==
    get_count_contact_owner(
        CASE i = 1 -> "date_entered__zoom_booked__new_lifecycle_stage_pipeline__"
          [] i = 2 -> "date_entered__zoom_attended__new_lifecycle_stage_pipeline__"
          [] i = 3 -> "date_entered__deal_negotiation__new_lifecycle_stage_pipeline__",
        id)
report_cc_to_labels == <<" TO Call", " TO Text", " Zoom Book", " Attend", " Deal Negotiation">>
report_cc_to_call(i, id) ==
    CASE i = 1 -> get_count_secondary_owner("takeover_date_time", id, Some("TO Call"))
      [] i = 2 -> get_count_secondary_owner("takeover_date_time", id, Some("TO Text"))
      [] i = 3 -> get_count_secondary_owner("date_entered__zoom_booked__new_lifecycle_stage_pipeline__", id, None)
      [] i = 4 -> get_count_secondary_owner("date_entered__zoom_attended__new_lifecycle_stage_pipeline__", id, None)
      [] i = 5 -> get_count_secondary_owner("date_entered__deal_negotiation__new_lifecycle_stage_pipeline__", id, None)

\* The call the script makes at position s.pc.
CallAt(s) ==
    CASE s.pc = "leads_allocate" ->
           Call(between_filter("date_entered__new_lead__new_lifecycle_stage_pipeline__"),
                Some(properties_leads))
      [] s.pc = "leads_create" -> Call(between_filter("createdate"), Some(properties_leads))
      [] s.pc = "lead_source_create" ->
           Call(between_filter("createdate"), Some(<<"lead_source">>))
      [] s.pc = "lifecycle_stage" -> lifecycle_call(Len(s.lifecycle_stage) + 1)
      [] s.pc = "report_sales_direct" ->
           report_sales_direct_call(Len(s.report) + 1, s.sales_id)
      [] s.pc = "report_cc_to" -> report_cc_to_call(Len(s.report) + 1, s.sales_id)
      [] s.pc = "output_lead_source" ->
           get_count_lead_source(s.sub_sources[Len(s.sub_lines) + 1])
      [] OTHER -> Call(between_filter("createdate"), None)

----------------------------------------------------------------------------
\* The code between two fetch calls.  Each operator gives the set of states
\* the script may be in when it reaches its next call (or its end): a set,
\* because the order in which Python lists a set() is not fixed by the code.

\* code points, for sorted()
Ord(c) ==
    CASE c = " " -> 32 [] c = "F" -> 70 [] c = "G" -> 71 [] c = "O" -> 79
      [] c = "f" -> 102 [] c = "g" -> 103 [] c = "o" -> 111 [] OTHER -> 127
RECURSIVE StrLess(_, _)
StrLess(a, b) ==
    IF b = <<>> THEN FALSE
    ELSE IF a = <<>> THEN TRUE
    ELSE IF Ord(Head(a)) # Ord(Head(b)) THEN Ord(Head(a)) < Ord(Head(b))
    ELSE StrLess(Tail(a), Tail(b))
\* sorted(list(set(xs)))
SortedSet(xs) ==
    CHOOSE s \in Orders(Range(xs)) : \A i, j \in DOMAIN s : i < j => StrLess(s[i], s[j])
RECURSIVE SumLens(_, _)
SumLens(f, D) ==
    IF D = {} THEN 0
    ELSE LET k == CHOOSE x \in D : TRUE IN Len(f[k]) + SumLens(f, D \ {k})
\* "\n".join(paragraphs), each paragraph a text ending in a newline: the
\* lines of the text, a blank line between two paragraphs
RECURSIVE JoinParagraphs(_)
JoinParagraphs(ps) ==
    IF ps = <<>> THEN <<>>
    ELSE IF Tail(ps) = <<>> THEN Head(ps)
    ELSE Head(ps) \o <<<<>>>> \o JoinParagraphs(Tail(ps))

\* lines 94-97: the distinct truthy lead_source values
LeadSourceSet(groups) ==
    {c.lead_source[1] : c \in {x \in Range(Concat(groups)) : Truthy(x.lead_source)}}
\* lines 110-116
LeadTypes(leads) ==
    [new_lead |-> filter_by_type(leads, "New Lead"),
     duplicate_lead |-> filter_by_type(leads, "Duplicate"),
     resubmitted_lead |-> filter_by_type(leads, "Resubmitted"),
     nurture_lead |-> filter_by_type(leads, "Nurture"),
     self_gen_lead |-> filter_by_type(leads, "Self Gen")]
\* lines 118-122
LeadSources(leads) ==
    [k \in {Lower(source) : source \in Range(main_lead_source)} \cup {NoLeadSourceKey} |->
        IF k = NoLeadSourceKey THEN match_blank_lead_source(leads)
        ELSE match_lead_source(leads, k)]
\* (the CC team not excluded)
ContactOwnersWithCcTeam(groups) ==
    {c.hubspot_owner_id[1] :
        c \in {x \in Range(Concat(groups)) : Truthy(x.hubspot_owner_id)}}
\* lines 137-142
ContactOwners(groups) ==
    {c.hubspot_owner_id[1] :
        c \in {x \in Range(Concat(groups)) :
                 Truthy(x.hubspot_owner_id) /\ x.hubspot_owner_id[1] \notin cc_team}}
\* lines 146-151
SecondaryOwners(groups) ==
    {c.secondary_owner[1] : c \in {x \in Range(Concat(groups)) : Truthy(x.secondary_owner)}}
\* sales_team.get(sales_id, sales_id)
SalesName(id) == IF id \in DOMAIN sales_team THEN sales_team[id] ELSE id
\* lines 181-186 and 198-205: one paragraph, as its lines
Paragraph(name, labels, counts) ==
    <<<<name>>>> \o [i \in DOMAIN labels |-> <<labels[i], counts[i]>>]

\* (the comparison without lower())
RECURSIVE GroupSourcesCaseSensitive(_, _)
GroupSourcesCaseSensitive(g, sources) ==
    IF sources = <<>> THEN g
    ELSE LET source == Head(sources)
             M == {i \in DOMAIN main_lead_source :
                     /\ source # <<>>
                     /\ main_lead_source[i] # <<>>
                     /\ In(main_lead_source[i], source)}
             first == CHOOSE i \in M : \A j \in M : i <= j
         IN  GroupSourcesCaseSensitive(
                 IF M # {} THEN [g EXCEPT ![main_lead_source[first]] = Append(@, source)]
                 ELSE IF source # <<>> THEN [g EXCEPT ![OtherKey] = Append(@, source)]
                 ELSE g,
                 Tail(sources))
\* lines 214-222
RECURSIVE GroupSources(_, _)
GroupSources(g, sources) ==
    IF sources = <<>> THEN g
    ELSE LET source == Head(sources)
             M == {i \in DOMAIN main_lead_source :
                     /\ source # <<>>
                     /\ main_lead_source[i] # <<>>
                     /\ In(Lower(main_lead_source[i]), Lower(source))}
             first == CHOOSE i \in M : \A j \in M : i <= j
         IN  GroupSources(
                 IF M # {} THEN [g EXCEPT ![main_lead_source[first]] = Append(@, source)]
                 ELSE IF source # <<>> THEN [g EXCEPT ![OtherKey] = Append(@, source)]
                 ELSE g,
                 Tail(sources))
\* lines 210-211
EmptyGroups == [k \in Range(main_lead_source) \cup {OtherKey} |-> <<>>]

\* line 245
OtherLead(leads, types) == Len(leads) - SumLens(types, DOMAIN types)
\* lines 242-260
Output(s) ==
    [new_lead |-> Len(s.lead_types.new_lead),
     duplicate_lead |-> Len(s.lead_types.duplicate_lead),
     resubmitted_lead |-> Len(s.lead_types.resubmitted_lead),
     nurture_lead |-> Len(s.lead_types.nurture_lead),
     self_gen_lead |-> Len(s.lead_types.self_gen_lead),
     other_lead |-> OtherLead(s.leads_allocate, s.lead_types),
     total_lead_allocate |-> Len(s.leads_allocate),
     lead_sources |-> [k \in DOMAIN s.lead_sources |-> Len(s.lead_sources[k])],
     other_source |-> Len(s.leads_create)
                        - SumLens(s.lead_sources, DOMAIN s.lead_sources),
     total_lead_create |-> Len(s.leads_create),
     lifecycle_stage |-> [i \in DOMAIN s.lifecycle_stage |-> Len(s.lifecycle_stage[i])],
     cc_to_report |-> JoinParagraphs(s.output_cc_to),
     sales_direct_report |-> JoinParagraphs(s.output_sales_direct),
     lead_source_report |-> s.output_lead_source]
Finish(s) == {[s EXCEPT !.pc = "done", !.output = Some(Output(s))]}

\* (no `continue`: a main_source without sub-sources gets its header too)
RECURSIVE ForMainSourceNoSkip(_, _)
ForMainSourceNoSkip(s, i) ==
    LET names == main_lead_source \o <<OtherKey>> IN
    IF i > Len(names) THEN Finish(s)
    ELSE LET sub == SortedSet(s.grouped_sources[names[i]]) IN
         IF sub = <<>>
         THEN ForMainSourceNoSkip(
                  [s EXCEPT !.output_lead_source = @ \o <<<<names[i], 0>>, <<>>>>], i + 1)
         ELSE {[s EXCEPT !.pc = "output_lead_source", !.main_idx = i,
                         !.sub_sources = sub, !.sub_lines = <<>>, !.main_count = 0]}
\* lines 225-228: the next main_source, from index i on, that has sub-sources
RECURSIVE ForMainSource(_, _)
ForMainSource(s, i) ==
    LET names == main_lead_source \o <<OtherKey>> IN
    IF i > Len(names) THEN Finish(s)
    ELSE LET sub == SortedSet(s.grouped_sources[names[i]]) IN
         IF sub = <<>> THEN ForMainSource(s, i + 1)
         ELSE {[s EXCEPT !.pc = "output_lead_source", !.main_idx = i,
                         !.sub_sources = sub, !.sub_lines = <<>>, !.main_count = 0]}
\* lines 209-222
LeadSourceReport(s) ==
    ForMainSource([s EXCEPT !.output_lead_source = <<>>,
                            !.grouped_sources =
                                GroupSources(EmptyGroups, s.lead_source_with_activity)], 1)
\* line 189: the next secondary owner
ForCcTo(s) ==
    IF s.todo = <<>> THEN LeadSourceReport(s)
    ELSE {[s EXCEPT !.pc = "report_cc_to", !.sales_id = Head(s.todo),
                    !.todo = Tail(s.todo), !.report = <<>>]}
\* line 174: the next direct owner; line 188 after the last
ForSalesDirect(s) ==
    IF s.todo = <<>>
    THEN ForCcTo([s EXCEPT !.output_cc_to = <<>>,
                           !.todo = s.unique_secondary_owners_with_activity])
    ELSE {[s EXCEPT !.pc = "report_sales_direct", !.sales_id = Head(s.todo),
                    !.todo = Tail(s.todo), !.report = <<>>]}
\* lines 137-174
OwnerLists(s) ==
    UNION {UNION {ForSalesDirect(
                    [s EXCEPT !.contact_owners_with_activity = ContactOwners(s.lifecycle_stage),
                              !.unique_secondary_owners_with_activity = sec,
                              !.output_sales_direct = <<>>,
                              !.todo = direct]) :
                  direct \in Orders(ContactOwners(s.lifecycle_stage))} :
           sec \in Orders(SecondaryOwners(s.lifecycle_stage))}

----------------------------------------------------------------------------
\* The code from the return of one fetch call to the next call: the
\* assignment of the result, then everything up to the next call.

\* line 87
AfterLeadsAllocate(s, r) == {[s EXCEPT !.leads_allocate = r, !.pc = "leads_create"]}
\* line 88
AfterLeadsCreate(s, r) == {[s EXCEPT !.leads_create = r, !.pc = "lead_source_create"]}
\* lines 90-122
AfterLeadSourceCreate(s, r) ==
    {[s EXCEPT !.lead_source_create = [lead_source_create_count |-> r],
               !.lead_source_with_activity = order,
               !.lead_types = LeadTypes(s.leads_allocate),
               !.lead_sources = LeadSources(s.leads_create),
               !.lifecycle_stage = <<>>,
               !.pc = "lifecycle_stage"] : order \in Orders(LeadSourceSet(<<r>>))}
\* lines 126-133, and on after the sixth fetch
AfterLifecycleStage(s, r) ==
    LET done == Append(s.lifecycle_stage, r) IN
    IF Len(done) < Len(lifecycle_keys) THEN {[s EXCEPT !.lifecycle_stage = done]}
    ELSE OwnerLists([s EXCEPT !.lifecycle_stage = done])
\* lines 176-186: one count of the paragraph; the paragraph after the third
AfterCountContactOwner(s, r) ==
    LET counts == Append(s.report, Len(r)) IN
    IF Len(counts) < Len(report_sales_direct_labels) THEN {[s EXCEPT !.report = counts]}
    ELSE ForSalesDirect(
            [s EXCEPT !.report = counts,
                      !.output_sales_direct =
                          Append(@, Paragraph(SalesName(s.sales_id),
                                              report_sales_direct_labels, counts))])
\* lines 191-205
AfterCountSecondaryOwner(s, r) ==
    LET counts == Append(s.report, Len(r)) IN
    IF Len(counts) < Len(report_cc_to_labels) THEN {[s EXCEPT !.report = counts]}
    ELSE ForCcTo(
            [s EXCEPT !.report = counts,
                      !.output_cc_to =
                          Append(@, Paragraph(SalesName(s.sales_id),
                                              report_cc_to_labels, counts))])
\* lines 232-238: one sub-source line; header, lines and blank after the last
AfterCountLeadSource(s, r) ==
    LET count == Len(r)
        lines == Append(s.sub_lines, <<s.sub_sources[Len(s.sub_lines) + 1], count>>)
        total == s.main_count + count
        main_source == (main_lead_source \o <<OtherKey>>)[s.main_idx]
    IN  IF Len(lines) < Len(s.sub_sources)
        THEN {[s EXCEPT !.sub_lines = lines, !.main_count = total]}
        ELSE ForMainSource(
                [s EXCEPT !.sub_lines = lines, !.main_count = total,
                          !.output_lead_source =
                              @ \o <<<<main_source, total>>>> \o lines \o <<<<>>>>],
                s.main_idx + 1)

----------------------------------------------------------------------------
\* fetch_all_hubspot_contacts (lines 29-66).

\* lines 40-46
Payload ==
    LET call == CallAt(Script) IN
    [filters |-> call.filters,
     properties |-> IF Truthy(call.properties) THEN call.properties[1] ELSE <<"email">>,
     limit |-> DefaultLimit,
     after |-> IF Truthy(after) THEN after ELSE None]
\* (a linear backoff that never grows)
BackoffConstant(n) == 5
\* line 54, in tenths of a second
Backoff(n) == (n + 1) * 5
\* line 49, in tenths of a second
Courtesy == 2
\* data.get("results", [])
Results(data) == IF data.results = None THEN <<>> ELSE data.results[1]
\* data.get("paging", {}).get("next", {}).get("after")
NextAfter(data) == data.next

\* (a loop that also retries server errors)
OutcomeRetry5xx(status_code) ==
    CASE status_code = 200 -> "break"
      [] status_code = 429 \/ status_code >= 500 -> "retry"
      [] OTHER -> "raise"
\* lines 51-56: what the loop does with a status code
Outcome(status_code) ==
    CASE status_code = 200 -> "break"
      [] status_code = 429 -> "retry"
      [] OTHER -> "raise"
\* (an assignment where the code extends)
ExtendAssign(results, data) == Results(data)
\* line 61
Extend(results, data) == results \o Results(data)

\* The first request of a call starts the record of what the call did.
FirstRequest == attempt = 0 /\ ~Truthy(after)
Log(log, entries) == IF FirstRequest THEN entries ELSE log \o entries
\* the pages received so far by the call in progress
PagesOf(log) ==
    LET Is200(r) == r.status_code = 200
        ok == SelectSeq(log, Is200)
    IN  [i \in DOMAIN ok |-> ok[i].data]
Served == PagesOf(responses)

\* What the service may answer: status 200 with one of the pages it holds
\* for the query (the chain of pages it serves to one call is finite), or
\* another status with a body.
Pages ==
    {p \in server[pc] : Truthy(p.next) => Len(PagesOf(Log(responses, <<>>))) + 1 < MaxPages}
Failures ==
    {[status_code |-> 429, text |-> <<"r">>], [status_code |-> 404, text |-> <<"n">>],
     [status_code |-> 500, text |-> <<"s">>]}
Ok(data) == [status_code |-> 200, data |-> data]

\* (an exception that is caught and logged, the script going on)
RaiseCaught(exception) == raised' = Some(exception) /\ fpc' = "call"
\* lines 56 and 58: raise Exception(...); nothing in the script catches it
Raise(exception) == raised' = Some(exception) /\ fpc' = "raised"

\* line 48: the for loop has an iteration left
InLoop == fpc = "call" /\ attempt < retries
\* lines 49-50: sleep, post the payload, receive response r
Post(r) ==
    /\ requests' = Log(requests, <<Payload>>)
    /\ responses' = Log(responses, <<r>>)
    /\ response' = r

\* lines 51-52, 60-64: status 200 with a cursor: the while loop goes round
NextPage ==
    /\ InLoop
    /\ \E data \in Pages :
          /\ Post(Ok(data))
          /\ Outcome(200) = "break"
          /\ Truthy(NextAfter(data))
          /\ all_results' = Extend(all_results, data)
          /\ after' = NextAfter(data)
    /\ sleeps' = Log(sleeps, <<Courtesy>>)
    /\ attempt' = 0
    /\ UNCHANGED <<fpc, retries, raised, confVars, scriptVars>>

\* lines 53-54: status 429: back off, then the next iteration
Retry429 ==
    /\ InLoop
    /\ \E r \in Failures :
          /\ Post(r)
          /\ Outcome(r.status_code) = "retry"
    /\ sleeps' = Log(sleeps, <<Courtesy, Backoff(attempt)>>)
    /\ attempt' = attempt + 1
    /\ UNCHANGED <<fpc, retries, after, all_results, raised, confVars, scriptVars>>

\* lines 55-56: any other status; nothing catches the exception
ApiError ==
    /\ InLoop
    /\ \E r \in Failures :
          /\ Post(r)
          /\ Outcome(r.status_code) = "raise"
          /\ Raise([message |-> "HubSpot API error",
                    status_code |-> r.status_code, text |-> r.text])
    /\ sleeps' = Log(sleeps, <<Courtesy>>)
    /\ UNCHANGED <<retries, attempt, after, all_results, confVars, scriptVars>>

\* lines 57-58: the for loop ran out
RetryExhausted ==
    /\ fpc = "call"
    /\ attempt >= retries
    /\ Raise([message |-> "Exceeded retry limit for HubSpot API."])
    /\ UNCHANGED <<retries, attempt, after, all_results, response, requests, responses,
                   sleeps, confVars, scriptVars>>

SetScript(s) ==
    /\ pc' = s.pc
    /\ leads_allocate' = s.leads_allocate
    /\ leads_create' = s.leads_create
    /\ lead_source_create' = s.lead_source_create
    /\ lead_source_with_activity' = s.lead_source_with_activity
    /\ lead_types' = s.lead_types
    /\ lead_sources' = s.lead_sources
    /\ lifecycle_stage' = s.lifecycle_stage
    /\ contact_owners_with_activity' = s.contact_owners_with_activity
    /\ unique_secondary_owners_with_activity' = s.unique_secondary_owners_with_activity
    /\ todo' = s.todo
    /\ sales_id' = s.sales_id
    /\ report' = s.report
    /\ output_sales_direct' = s.output_sales_direct
    /\ output_cc_to' = s.output_cc_to
    /\ grouped_sources' = s.grouped_sources
    /\ main_idx' = s.main_idx
    /\ sub_sources' = s.sub_sources
    /\ sub_lines' = s.sub_lines
    /\ main_count' = s.main_count
    /\ output_lead_source' = s.output_lead_source
    /\ output' = s.output

\* the code that follows the call made at `at`, up to the next call or the end
AfterAt(at, s, results) ==
    CASE at = "leads_allocate" -> AfterLeadsAllocate(s, results)
      [] at = "leads_create" -> AfterLeadsCreate(s, results)
      [] at = "lead_source_create" -> AfterLeadSourceCreate(s, results)
      [] at = "lifecycle_stage" -> AfterLifecycleStage(s, results)
      [] at = "report_sales_direct" -> AfterCountContactOwner(s, results)
      [] at = "report_cc_to" -> AfterCountSecondaryOwner(s, results)
      [] at = "output_lead_source" -> AfterCountLeadSource(s, results)

\* lines 51-52, 60-66: status 200 without a cursor ends the call; the script
\* at `at` takes the result and runs on to its next call, entered with the
\* function's defaults, or to its end
Return(at) ==
    /\ pc = at
    /\ InLoop
    /\ \E data \in Pages :
          /\ Post(Ok(data))
          /\ Outcome(200) = "break"
          /\ ~Truthy(NextAfter(data))
          /\ \E s \in AfterAt(at, Script, Extend(all_results, data)) :
                /\ SetScript(s)
                /\ fpc' = IF s.pc = "done" THEN "idle" ELSE "call"
    /\ sleeps' = Log(sleeps, <<Courtesy>>)
    /\ all_results' = <<>>
    /\ after' = None
    /\ attempt' = 0
    /\ retries' = DefaultRetries
    /\ UNCHANGED <<raised, confVars>>

ReturnLeadsAllocate == Return("leads_allocate")
ReturnLeadsCreate == Return("leads_create")
ReturnLeadSourceCreate == Return("lead_source_create")
ReturnLifecycleStage == Return("lifecycle_stage")
ReturnCountContactOwner == Return("report_sales_direct")
ReturnCountSecondaryOwner == Return("report_cc_to")
ReturnCountLeadSource == Return("output_lead_source")

\* the same, for a call made on its own: the caller holds the returned list
ReturnStandalone ==
    /\ pc = "standalone"
    /\ InLoop
    /\ \E data \in Pages :
          /\ Post(Ok(data))
          /\ Outcome(200) = "break"
          /\ ~Truthy(NextAfter(data))
          /\ all_results' = Extend(all_results, data)
    /\ sleeps' = Log(sleeps, <<Courtesy>>)
    /\ fpc' = "returned"
    /\ UNCHANGED <<retries, attempt, after, raised, confVars, scriptVars>>

----------------------------------------------------------------------------
\* Initial states: the configuration (lines 9-25), what the service holds,
\* and the script at its first call, or one call made on its own.

Contact(lead_type, lead_source, hubspot_owner_id, secondary_owner) ==
    [lead_type |-> lead_type, lead_source |-> lead_source,
     hubspot_owner_id |-> hubspot_owner_id, secondary_owner |-> secondary_owner]
Lead(lead_type) == Contact(lead_type, None, None, None)
Sourced(lead_source) == Contact(None, lead_source, None, None)
Owned(hubspot_owner_id, secondary_owner) ==
    Contact(None, None, hubspot_owner_id, secondary_owner)
\* a response body {"results": [...], "paging": {"next": {"after": ...}}}
Page(results, next) == [results |-> Some(results), next |-> next]
LastPage(results) == Page(results, None)

Stages ==
    {"standalone", "leads_allocate", "leads_create", "lead_source_create",
     "lifecycle_stage", "report_sales_direct", "report_cc_to", "output_lead_source"}

InitWith(raw_sources, cc, st, instant, srv, at, r) ==
    /\ cc_team = cc
    /\ sales_team = st
    /\ main_lead_source = [i \in DOMAIN raw_sources |-> Strip(raw_sources[i])]
    /\ now = instant
    /\ start_timestamp = StartTimestamp(instant)
    /\ end_timestamp = EndTimestamp(instant)
    /\ server = srv
    /\ fpc = "call"
    /\ retries = r
    /\ attempt = 0
    /\ after = None
    /\ all_results = <<>>
    /\ response = None
    /\ raised = None
    /\ requests = <<>>
    /\ sleeps = <<>>
    /\ responses = <<>>
    /\ pc = at
    /\ leads_allocate = <<>>
    /\ leads_create = <<>>
    /\ lead_source_create = <<>>
    /\ lead_source_with_activity = <<>>
    /\ lead_types = <<>>
    /\ lead_sources = <<>>
    /\ lifecycle_stage = <<>>
    /\ contact_owners_with_activity = {}
    /\ unique_secondary_owners_with_activity = <<>>
    /\ todo = <<>>
    /\ sales_id = <<>>
    /\ report = <<>>
    /\ output_sales_direct = <<>>
    /\ output_cc_to = <<>>
    /\ grouped_sources = <<>>
    /\ main_idx = 0
    /\ sub_sources = <<>>
    /\ sub_lines = <<>>
    /\ main_count = 0
    /\ output_lead_source = <<>>
    /\ output = None

\* one instant, noon UTC of day 1, where the window is not what is examined
Noon == [ms |-> DayMs + 12 * HourMs, us |-> 0]
\* the sales-team mapping names owner "7" only
SalesTeam == [id \in {<<"7">>} |-> <<"A">>]

\* What the service holds where a specification does not vary it: one
\* contact per query, the first query's result split over two pages.
BaseServer ==
    [st \in Stages |->
        CASE st = "leads_allocate" ->
               {[results |-> None, next |-> Some(<<"a">>)],
                LastPage(<<Lead(Some("New Lead"))>>)}
          [] st \in {"leads_create", "lead_source_create"} ->
               {LastPage(<<Sourced(Some(<<"f">>))>>)}
          [] st = "lifecycle_stage" -> {LastPage(<<Owned(Some(<<"7">>), Some(<<"8">>))>>)}
          [] OTHER -> {LastPage(<<Lead(None)>>)}]

\* --- one call on its own, with any retries argument
FetchPages ==
    {[results |-> r, next |-> n] :
        r \in {None, Some(<<Lead(Some("New Lead"))>>),
                Some(<<Lead(Some("Duplicate")), Lead(Some("New Lead"))>>)},
        n \in {None, Some(<<>>), Some(<<"a">>), Some(<<"b">>)}}
InitFetch ==
    \E r \in 0..MaxRetries :
        InitWith(<<>>, {}, SalesTeam, Noon,
                 [BaseServer EXCEPT !["standalone"] = FetchPages], "standalone", r)
NextFetch ==
    \/ NextPage
    \/ Retry429
    \/ ApiError
    \/ RetryExhausted
    \/ ReturnStandalone
SpecFetch == InitFetch /\ [][NextFetch]_vars

\* --- the script
Next ==
    \/ NextPage
    \/ Retry429
    \/ ApiError
    \/ RetryExhausted
    \/ ReturnLeadsAllocate
    \/ ReturnLeadsCreate
    \/ ReturnLeadSourceCreate
    \/ ReturnLifecycleStage
    \/ ReturnCountContactOwner
    \/ ReturnCountSecondaryOwner
    \/ ReturnCountLeadSource
InitScript(raw_sources, cc, instant, srv) ==
    InitWith(raw_sources, cc, SalesTeam, instant, srv, "leads_allocate", DefaultRetries)

\* the configured names before strip(): lists without repetition of at
\* most MaxSources of these
RawNames == {<<"F">>, <<" ", "g">>, <<" ">>, <<"g", "f">>}
RawConfigs ==
    UNION {{c \in [1..n -> RawNames] : \A i, j \in 1..n : i # j => c[i] # c[j]} :
           n \in 0..MaxSources}

\* --- the owners vary: who owns the contacts of the six lifecycle fetches,
\* and who is in the CC team
OwnerPages ==
    {LastPage(<<Owned(Some(<<"7">>), Some(<<"8">>))>>),
     LastPage(<<Owned(Some(<<"9">>), None), Owned(Some(<<>>), Some(<<"9">>)),
                Owned(None, Some(<<>>))>>)}
CcTeams == {{}, {<<"9">>}, {<<"7">>, <<"8">>}}
Init ==
    \E cc \in CcTeams :
        InitScript(<<<<"F">>>>, cc, Noon,
                   [BaseServer EXCEPT !["lifecycle_stage"] = OwnerPages])
Spec == Init /\ [][Next]_vars

\* --- the instant of the run varies
TimesOfDay ==
    {0, 10 * HourMs - 1, 10 * HourMs, 17 * HourMs - 1, 17 * HourMs, DayMs - 1}
Instants ==
    {[ms |-> d * DayMs + t, us |-> u] : d \in 1..MaxDay, t \in TimesOfDay, u \in {0, 999}}
InitWindow == \E instant \in Instants : InitScript(<<<<"F">>>>, {}, instant, BaseServer)
SpecWindow == InitWindow /\ [][Next]_vars

\* --- the leads vary: their lead_type, their lead_source, the configured names
LeadPages ==
    {Page(<<Lead(Some("Duplicate")), Lead(Some("New Lead"))>>, Some(<<"a">>)),
     LastPage(<<>>),
     LastPage(<<Lead(Some("New Lead")), Lead(Some("Self Gen")), Lead(Some("New Lead"))>>),
     LastPage(<<Lead(Some("Resubmitted")), Lead(None), Lead(Some("Nurture")),
                Lead(Some("Cold"))>>)}
CreatedPages ==
    {LastPage(<<Sourced(Some(<<"f">>)), Sourced(None)>>),
     LastPage(<<Sourced(Some(<<"G", "f">>)), Sourced(Some(<<>>)), Sourced(Some(<<"o">>))>>),
     LastPage(<<Sourced(Some(<<" ", "G">>)), Sourced(Some(<<"F">>)), Sourced(Some(<<"f">>))>>)}
InitLeads ==
    \E raw \in RawConfigs :
        InitScript(raw, {}, Noon,
                   [BaseServer EXCEPT !["leads_allocate"] = LeadPages,
                                      !["leads_create"] = CreatedPages])
SpecLeads == InitLeads /\ [][Next]_vars

\* --- the observed lead sources vary, and the configured names
ObservedPages ==
    {LastPage(<<>>),
     LastPage(<<Sourced(Some(<<"f">>)), Sourced(None)>>),
     LastPage(<<Sourced(Some(<<"G", "f">>)), Sourced(Some(<<>>)), Sourced(Some(<<"o">>))>>),
     LastPage(<<Sourced(Some(<<"f", "g">>)), Sourced(Some(<<"G", "f">>)),
                Sourced(Some(<<"f", "g">>))>>),
     LastPage(<<Sourced(Some(<<" ", "G">>)), Sourced(Some(<<"F">>)), Sourced(Some(<<"o">>))>>)}
InitSources ==
    \E raw \in RawConfigs :
        InitScript(raw, {}, Noon,
                   [BaseServer EXCEPT !["lead_source_create"] = ObservedPages,
                                      !["output_lead_source"] =
                                          {LastPage(<<>>), LastPage(<<Lead(None)>>)}])
SpecSources == InitSources /\ [][Next]_vars

----------------------------------------------------------------------------
\* Properties of one call (SpecFetch).

ApiErrorOf(r) ==
    Some([message |-> "HubSpot API error", status_code |-> r.status_code, text |-> r.text])
RetryExhaustedError == Some([message |-> "Exceeded retry limit for HubSpot API."])
Last(s) == s[Len(s)]
\* the number of 429 responses at the end of the log: those of the page
\* the call is at
RECURSIVE TrailingRun(_)
TrailingRun(log) ==
    IF log # <<>> /\ Last(log).status_code = 429
    THEN 1 + TrailingRun(SubSeq(log, 1, Len(log) - 1))
    ELSE 0
\* the sleeps a log of responses calls for: 0.2 s before each request and,
\* after the k-th 429 in a row, k * 0.5 s (k is the count before this one)
RECURSIVE SleepsFor(_, _)
SleepsFor(log, k) ==
    IF log = <<>> THEN <<>>
    ELSE IF Head(log).status_code = 429
         THEN <<2, (k + 1) * 5>> \o SleepsFor(Tail(log), k + 1)
         ELSE <<2>> \o SleepsFor(Tail(log), 0)
\* every request sent so far was answered with status 200
AllAnswered200 ==
    requests # <<>> /\ \A i \in DOMAIN responses : responses[i].status_code = 200

\* C1: against a service that answers every request with status 200, the
\* call never fails; each request after the first carries as `after` the
\* cursor of the response before it and the first carries none; the call
\* goes on while the cursor is non-empty and returns at the first response
\* whose cursor is absent or empty; what it has gathered, and what it
\* returns, is the concatenation of the results of the pages in the order
\* received.  (A call that sends no request at all is the retries = 0 case
\* of C2.)
C1_ConcatenationInCursorOrder ==
    AllAnswered200 =>
        /\ fpc \in {"call", "returned"}
        /\ Len(requests) = Len(responses)
        /\ \A i \in DOMAIN requests :
              requests[i].after = IF i = 1 THEN None ELSE Served[i - 1].next
        /\ \A i \in 1..(Len(Served) - 1) : Truthy(Served[i].next)
        /\ fpc = "returned" <=> ~Truthy(Last(Served).next)
        /\ all_results =
              Concat([i \in DOMAIN Served |->
                        IF Served[i].results = None THEN <<>> ELSE Served[i].results[1]])
C1_Witness ==
    /\ AllAnswered200
    /\ fpc = "returned"
    /\ Len(Served) >= 2
    /\ Served[1].next # Served[2].next
    /\ Len(all_results) >= 3

\* C2: the sleeps are 0.2 s before each request and k * 0.5 s after the
\* k-th consecutive 429 of a page; a page is never requested more than
\* `retries` times; once `retries` requests for the page at hand (the first
\* or a later one) were all answered 429, the only step is the failure with
\* the retry-exhausted error, which sends nothing, and that error is raised
\* in no other situation (with retries = 0, before any request); nothing
\* follows a failure.
C2_State ==
    /\ sleeps = SleepsFor(responses, 0)
    /\ TrailingRun(responses) <= retries
    /\ raised = RetryExhaustedError =>
          /\ TrailingRun(responses) = retries
          /\ Len(requests) = Len(responses)
          /\ fpc = "raised"
C2_Step ==
    /\ fpc = "call" /\ TrailingRun(responses) = retries =>
          raised' = RetryExhaustedError /\ requests' = requests /\ sleeps' = sleeps
    /\ fpc # "raised"
C2_RetryExhausted == [](C2_State) /\ [][C2_Step]_vars
C2_Witness ==
    /\ raised = RetryExhaustedError
    /\ retries = DefaultRetries
    /\ Len(Served) = 1
    /\ Len(requests) = 1 + retries
    /\ SubSeq(sleeps, 2, Len(sleeps)) = <<2, 5, 2, 10, 2, 15>>

\* C3: a response with a status other than 200 and 429, on any page and
\* after any number of 429 responses, ends the call at once with the API
\* error carrying that status and body: the only sleep since the request is
\* the 0.2 s before it, no request follows, and nothing is returned.
C3_State ==
    (responses # <<>> /\ Last(responses).status_code \notin {200, 429}) =>
        /\ fpc = "raised"
        /\ raised = ApiErrorOf(Last(responses))
        /\ Len(requests) = Len(responses)
        /\ sleeps = SleepsFor(responses, 0)
        /\ Last(sleeps) = Courtesy
C3_Step == fpc = "raised" => (requests' = requests /\ fpc' = "raised")
C3_ApiErrorIsImmediate == [](C3_State) /\ [][C3_Step]_vars
C3_Witness ==
    /\ raised # None
    /\ raised # RetryExhaustedError
    /\ raised[1].status_code = 500
    /\ Len(Served) >= 1
    /\ Len(all_results) >= 1
    /\ TrailingRun(SubSeq(responses, 1, Len(responses) - 1)) >= 1

----------------------------------------------------------------------------
\* Properties of the script.

\* a text of paragraphs, as the first line of each of its paragraphs
RECURSIVE FirstLines(_, _)
FirstLines(lines, at_start) ==
    IF lines = <<>> THEN <<>>
    ELSE IF Head(lines) = <<>> THEN FirstLines(Tail(lines), TRUE)
    ELSE (IF at_start THEN <<Head(lines)>> ELSE <<>>) \o FirstLines(Tail(lines), FALSE)
\* the number of lines of each paragraph after its first line
RECURSIVE BodyLengths(_, _)
BodyLengths(lines, n) ==
    IF lines = <<>> THEN (IF n < 0 THEN <<>> ELSE <<n>>)
    ELSE IF Head(lines) = <<>>
         THEN (IF n < 0 THEN <<>> ELSE <<n>>) \o BodyLengths(Tail(lines), -1)
    ELSE BodyLengths(Tail(lines), n + 1)
NoRepeat(s) == \A i, j \in DOMAIN s : i # j => s[i] # s[j]
Failed == raised # None

\* C4: once a fetch has failed, with either error, the run has stopped for
\* good: no step follows, so no later fetch is issued and no output record
\* appears; an output record exists only at the end of a run in which
\* nothing was raised and every fetch returned: the six lifecycle results,
\* one finished paragraph per owner in each report.
C4_State ==
    /\ Failed => output = None /\ fpc = "raised"
    /\ output # None =>
          /\ ~Failed
          /\ pc = "done"
          /\ Len(lifecycle_stage) = Len(lifecycle_keys)
          /\ Len(output_sales_direct) = Cardinality(contact_owners_with_activity)
          /\ Len(output_cc_to) = Len(unique_secondary_owners_with_activity)
C4_Step == ~Failed /\ (Failed' => output = None /\ output' = None)
C4_NoPartialOutput == [](C4_State) /\ [][C4_Step]_vars
C4_Witness ==
    /\ Failed
    /\ pc = "output_lead_source"
    /\ output_sales_direct # <<>>
    /\ output_cc_to # <<>>
    /\ output = None

\* C5: start_timestamp is the epoch millisecond of 17:00:00.000 on the day
\* before the UTC+7 calendar day of `now`, end_timestamp that of
\* 16:59:59.999 on that day, 86,399,999 ms apart; every request of the run
\* carries exactly one BETWEEN filter, and it has these two values.
LocalDay(instant) == (instant.ms + 7 * HourMs) \div DayMs
C5_Window ==
    /\ start_timestamp = (LocalDay(now) - 1) * DayMs + 17 * HourMs - 7 * HourMs
    /\ end_timestamp = LocalDay(now) * DayMs + 17 * HourMs - 1 - 7 * HourMs
    /\ end_timestamp - start_timestamp = 86399999
    /\ \A i \in DOMAIN requests :
          LET fs == requests[i].filters
              B == {j \in DOMAIN fs : fs[j].operator = "BETWEEN"}
          IN  /\ Cardinality(B) = 1
              /\ \A j \in B : fs[j].value = start_timestamp
                              /\ fs[j].highValue = end_timestamp
C5_Witness ==
    /\ now.ms % DayMs >= 17 * HourMs
    /\ now.us > 0
    /\ pc = "report_cc_to"
    /\ Len(requests) >= 2

\* C7: in the output, the sales-direct report has exactly one paragraph, of
\* three counts, for each distinct non-empty hubspot_owner_id of the six
\* lifecycle results that is not in the CC team, and none for an identifier
\* of the CC team; the CC report has exactly one paragraph, of five counts,
\* for each distinct non-empty secondary_owner of those results, in the CC
\* team or not.  A paragraph is recognised by its first line, the owner's
\* name in the sales team or else the identifier.
Fetched == UNION {Range(lifecycle_stage[i]) : i \in DOMAIN lifecycle_stage}
DirectIds ==
    {id \in {c.hubspot_owner_id[1] : c \in {x \in Fetched : x.hubspot_owner_id # None}} :
        id # <<>> /\ id \notin cc_team}
SecondaryIds ==
    {id \in {c.secondary_owner[1] : c \in {x \in Fetched : x.secondary_owner # None}} :
        id # <<>>}
NameLine(id) == <<IF id \in DOMAIN sales_team THEN sales_team[id] ELSE id>>
OneParagraphEach(text, ids, n) ==
    /\ Len(FirstLines(text, TRUE)) = Cardinality(ids)
    /\ Range(FirstLines(text, TRUE)) = {NameLine(id) : id \in ids}
    /\ \A i \in DOMAIN BodyLengths(text, -1) : BodyLengths(text, -1)[i] = n
    /\ Len(BodyLengths(text, -1)) = Cardinality(ids)
C7_OneParagraphPerOwner ==
    output # None =>
        /\ OneParagraphEach(output[1].sales_direct_report, DirectIds, 3)
        /\ OneParagraphEach(output[1].cc_to_report, SecondaryIds, 5)
C7_Witness ==
    /\ output # None
    /\ cc_team # {}
    /\ \E c \in Fetched : c.hubspot_owner_id # None /\ c.hubspot_owner_id[1] \in cc_team
    /\ \E id \in SecondaryIds : id \in cc_team
    /\ Cardinality(SecondaryIds) >= 2
    /\ DirectIds # {}

\* C6: once the sources are grouped, every distinct non-empty lead_source
\* of the created-in-window fetch is in exactly one list of grouped_sources,
\* once: the list of the first configured name, in configured order, that
\* occurs in it without regard to case, or the list of "Other" if none
\* does; and the lists hold nothing else.  (A configured name that is empty
\* after trimming has no occurrence in anything.)
Grouped == OtherKey \in DOMAIN grouped_sources
Observed ==
    {c.lead_source[1] :
        c \in {x \in Range(lead_source_create.lead_source_create_count) :
                 x.lead_source # None /\ x.lead_source[1] # <<>>}}
OccursIn(name, source) ==
    /\ name # <<>>
    /\ \E i \in 1..Len(source) :
          /\ i + Len(name) - 1 <= Len(source)
          /\ \A j \in 1..Len(name) : LowerChar(source[i + j - 1]) = LowerChar(name[j])
BucketOf(source) ==
    LET M == {i \in DOMAIN main_lead_source : OccursIn(main_lead_source[i], source)}
    IN  IF M = {} THEN OtherKey ELSE main_lead_source[CHOOSE i \in M : \A j \in M : i <= j]
BucketNames == main_lead_source \o <<OtherKey>>
NonEmptyBuckets(upto) ==
    LET HasSub(name) == grouped_sources[name] # <<>>
    IN  SelectSeq(SubSeq(BucketNames, 1, upto), HasSub)
HeaderNames(lines) ==
    LET first == FirstLines(lines, TRUE) IN [i \in DOMAIN first |-> first[i][1]]
LeadSourcesBuilt == NoLeadSourceKey \in DOMAIN lead_sources
C9_MatchNeverReturnsBlank ==
    LeadSourcesBuilt =>
        \A i \in DOMAIN main_lead_source :
           LET keyword == main_lead_source[i]
               Matches(l) ==
                   /\ l.lead_source # None
                   /\ l.lead_source[1] # <<>>
                   /\ In(Lower(keyword), Lower(l.lead_source[1]))
           IN  lead_sources[Lower(keyword)] = SelectSeq(leads_create, Matches)

\* C10 as claimed: in every output other_lead is total_lead_allocate minus
\* the five bucket sizes, and some list of leads makes the buckets overlap
\* and other_lead negative.
LeadTypeValues ==
    {None, Some("New Lead"), Some("Duplicate"), Some("Resubmitted"), Some("Nurture"),
     Some("Self Gen"), Some("Cold")}
LeadLists == UNION {[1..n -> {Lead(v) : v \in LeadTypeValues}] : n \in 0..MaxLeads}
FiveBuckets(o) ==
    o.new_lead + o.duplicate_lead + o.resubmitted_lead + o.nurture_lead + o.self_gen_lead
SomeListGoesNegative == \E leads \in LeadLists : OtherLead(leads, LeadTypes(leads)) < 0
C10_ResidualCanBeNegative ==
    output # None =>
        /\ output[1].other_lead = output[1].total_lead_allocate - FiveBuckets(output[1])
        /\ SomeListGoesNegative
\* C10 as amended: other_lead is that difference; the five buckets, chosen
\* by equality with five different values, hold no lead twice, so
\* other_lead is the number of leads in none of them and is never
\* negative, for the leads of any run and for every list of leads.
InNoBucket(l) ==
    l.lead_type \notin {Some("New Lead"), Some("Duplicate"), Some("Resubmitted"),
                        Some("Nurture"), Some("Self Gen")}
NoListGoesNegative == \A leads \in LeadLists : OtherLead(leads, LeadTypes(leads)) >= 0
C10_ResidualNeverNegative ==
    output # None =>
        /\ output[1].other_lead = output[1].total_lead_allocate - FiveBuckets(output[1])
        /\ output[1].total_lead_allocate = Len(leads_allocate)
        /\ output[1].new_lead = Len(lead_types.new_lead)
        /\ output[1].other_lead = Len(SelectSeq(leads_allocate, InNoBucket))
        /\ output[1].other_lead >= 0
        /\ NoListGoesNegative
C10_Witness ==
    /\ output # None
    /\ output[1].other_lead >= 2
    /\ output[1].new_lead >= 2
    /\ output[1].duplicate_lead >= 1
    /\ output[1].nurture_lead >= 1

====
